---------------------------- MODULE Spec2Model ----------------------------
(***************************************************************************)
(* Model of the hypha virtual bridge (network/src/vbridge.rs): the member  *)
(* registry, VirtualBridge::join, and the switching task                   *)
(* VirtualBridge::process, with frames as byte sequences.                  *)
(***************************************************************************)
EXTENDS Integers, Sequences, FiniteSets, TLC

(***************************************************************************)
(* Bounds of the model.  The three queue capacities are 50 in the source   *)
(* (vbridge.rs:22-24); the model runs the same code over small capacities  *)
(* so that a full queue and a lagging subscriber are reachable.            *)
(***************************************************************************)
TO_BRIDGE_QUEUE_LEN == 2

FROM_BRIDGE_QUEUE_LEN == 1

BROADCAST_QUEUE_LEN == 1

MaxJoins == 2

MaxSubmit == 2

(***************************************************************************)
(* Bytes and big-endian 16-bit words.                                      *)
(***************************************************************************)
U16(hi, lo) == hi * 256 + lo

Hi(w) == (w \div 256) % 256

Lo(w) == w % 256

(* The slice s[from..] of Rust, with from a 0-based offset.                *)
SliceFrom(s, from) == SubSeq(s, from + 1, Len(s))

(* The slice s[from..to] of Rust, 0-based, to exclusive.                   *)
Slice(s, from, to) == SubSeq(s, from + 1, to)

(***************************************************************************)
(* Link-layer addresses.                                                   *)
(***************************************************************************)
MacA == <<170, 170, 170, 170, 170, 1>>

MacB == <<170, 170, 170, 170, 170, 2>>

MacBroadcast == <<255, 255, 255, 255, 255, 255>>

MacGroup == <<1, 0, 94, 0, 0, 1>>

(* The addresses join is called with.                                      *)
Addresses == {MacA, MacB}

(* Mutant: only the broadcast address counts as a group address.           *)
is_multicast_BroadcastOnly(m) == m = MacBroadcast

(* smoltcp EthernetAddress::is_multicast: the group bit of the first octet *)
is_multicast(mac) == (mac[1] % 2) = 1

(***************************************************************************)
(* Header parsing, as etherparse does it for the calls process makes.      *)
(***************************************************************************)
ETHERNET2_LEN == 14

ETHER_TYPE_IPV4 == 2048

IP_NUMBER_TCP == 6

(* Ethernet2Header::from_slice: fails on fewer than 14 bytes.              *)
Ethernet2HeaderFromSlice(p) ==
    IF Len(p) < ETHERNET2_LEN
    THEN [ok |-> FALSE]
    ELSE [ok          |-> TRUE,
          destination |-> Slice(p, 0, 6),
          source      |-> Slice(p, 6, 12),
          ether_type  |-> U16(p[13], p[14]),
          payload     |-> SliceFrom(p, ETHERNET2_LEN)]

(* Ipv4Header::from_slice: fails on fewer than 20 bytes, a version other   *)
(* than 4, an IHL below 5, or a slice shorter than the IHL says.           *)
Ipv4HeaderFromSlice(s) ==
    IF Len(s) < 20 THEN [ok |-> FALSE]
    ELSE IF s[1] \div 16 # 4 THEN [ok |-> FALSE]
    ELSE IF s[1] % 16 < 5 THEN [ok |-> FALSE]
    ELSE IF Len(s) < (s[1] % 16) * 4 THEN [ok |-> FALSE]
    ELSE [ok          |-> TRUE,
          header_len  |-> (s[1] % 16) * 4,
          protocol    |-> s[10],
          source      |-> Slice(s, 12, 16),
          destination |-> Slice(s, 16, 20),
          payload     |-> SliceFrom(s, (s[1] % 16) * 4)]

(* TcpHeader::from_slice: fails on fewer than 20 bytes, a data offset      *)
(* below 5, or a slice shorter than the data offset says.                  *)
TcpHeaderFromSlice(s) ==
    IF Len(s) < 20 THEN [ok |-> FALSE]
    ELSE IF s[13] \div 16 < 5 THEN [ok |-> FALSE]
    ELSE IF Len(s) < (s[13] \div 16) * 4 THEN [ok |-> FALSE]
    ELSE [ok         |-> TRUE,
          header_len |-> (s[13] \div 16) * 4,
          bytes      |-> Slice(s, 0, (s[13] \div 16) * 4),
          payload    |-> SliceFrom(s, (s[13] \div 16) * 4)]

(***************************************************************************)
(* The TCP checksum over the IPv4 pseudo-header.                           *)
(***************************************************************************)
RECURSIVE SumWords(_)
(* Sum of the big-endian 16-bit words of s, a trailing odd byte padded     *)
(* with a zero low byte.                                                   *)
SumWords(s) ==
    IF Len(s) = 0 THEN 0
    ELSE IF Len(s) = 1 THEN U16(s[1], 0)
    ELSE U16(s[1], s[2]) + SumWords(SliceFrom(s, 2))

RECURSIVE Fold16(_)
(* End-around carry until the sum fits 16 bits.                            *)
Fold16(x) == IF x < 65536 THEN x ELSE Fold16((x % 65536) + (x \div 65536))

OnesComplement16(x) == 65535 - Fold16(x)

(* TcpHeader::to_bytes: the header fields written back.  The header keeps  *)
(* the data offset, the nine flags and the options, but not the three      *)
(* reserved bits of byte 12, which are written as zero.                    *)
TcpToBytes(hdr, checksum) ==
    [i \in 1..Len(hdr) |->
        IF i = 13 THEN (hdr[13] \div 16) * 16 + (hdr[13] % 2)
        ELSE IF i = 17 THEN Hi(checksum)
        ELSE IF i = 18 THEN Lo(checksum)
        ELSE hdr[i]]

(* TcpHeader::calc_checksum_ipv4(&ipv4, payload): pseudo-header (source,   *)
(* destination, protocol, TCP length), the header with a zero checksum,    *)
(* and the payload.  The TCP length is header length + payload.len().      *)
CalcChecksumIpv4(ipv4, tcp) ==
    OnesComplement16(
        SumWords(ipv4.source) + SumWords(ipv4.destination)
        + IP_NUMBER_TCP + (tcp.header_len + Len(tcp.payload))
        + SumWords(TcpToBytes(tcp.bytes, 0))
        + SumWords(tcp.payload))

(* packet[tcp_header_offset + i] = b for every byte of the header.         *)
WriteAt(packet, offset, bytes) ==
    [i \in 1..Len(packet) |->
        IF i > offset /\ i <= offset + Len(bytes)
        THEN bytes[i - offset] ELSE packet[i]]


(***************************************************************************)
(* The frames members submit.                                              *)
(***************************************************************************)
EthFrame(dst, src, ether_type, payload) ==
    dst \o src \o <<Hi(ether_type), Lo(ether_type)>> \o payload

(* A 20-byte IPv4 header 10.0.0.1 -> 10.0.0.2 carrying len payload bytes.  *)
Ipv4Bytes(protocol, len) ==
    <<69, 0, Hi(20 + len), Lo(20 + len), 0, 0, 64, 0, 64, protocol, 0, 0,
      10, 0, 0, 1, 10, 0, 0, 2>>

(* A 20-byte TCP header, SYN, ports 4097 -> 80, with the given checksum.   *)
TcpBytes(checksum) ==
    <<16, 1, 0, 80, 0, 0, 0, 1, 0, 0, 0, 0, 80, 2, 16, 0,
      Hi(checksum), Lo(checksum), 0, 0>>

TcpSegment(checksum) == Ipv4Bytes(IP_NUMBER_TCP, 22) \o TcpBytes(checksum) \o <<7, 9>>

(* Shorter than an Ethernet II header.                                     *)
FrameShort == <<170, 170, 170>>

(* EtherType ARP (0x0806): not IPv4.                                       *)
FrameArp(dst, src) == EthFrame(dst, src, 2054, <<0, 1>>)

(* EtherType IPv4 with a truncated IPv4 header.                            *)
FrameIpv4Truncated(dst, src) == EthFrame(dst, src, ETHER_TYPE_IPV4, <<69, 0>>)

(* IPv4, protocol TCP, with a truncated TCP header.                        *)
FrameTcpTruncated(dst, src) ==
    EthFrame(dst, src, ETHER_TYPE_IPV4, Ipv4Bytes(IP_NUMBER_TCP, 4) \o <<16, 1, 0, 80>>)

(* IPv4, protocol UDP (17): not TCP.                                       *)
FrameUdp(dst, src) ==
    EthFrame(dst, src, ETHER_TYPE_IPV4,
             Ipv4Bytes(17, 8) \o <<16, 1, 0, 53, 0, 8, 0, 0>>)

(* Well-formed TCP over IPv4 with the checksum field as given.             *)
FrameTcp(dst, src, checksum) == EthFrame(dst, src, ETHER_TYPE_IPV4, TcpSegment(checksum))

Frames ==
    { FrameShort,
      FrameArp(MacA, MacB),
      FrameTcp(MacB, MacA, 0),
      FrameUdp(MacGroup, MacB),
      FrameIpv4Truncated(MacBroadcast, MacB),
      FrameTcpTruncated(MacB, MacA) }

(***************************************************************************)
(* The pure part of one PacketReceived(Some(packet)) pass of process:      *)
(* parse, repair the TCP checksum, and classify.  "continue" is the        *)
(* dropped frame of vbridge.rs:121-124, "error" a `?` that returns from    *)
(* process, "forward" a frame that reaches destination resolution.         *)
(***************************************************************************)
RepairTcp(packet, ipv4) ==
    LET tcp == TcpHeaderFromSlice(ipv4.payload) IN
    IF ~tcp.ok THEN [outcome |-> "error"]
    ELSE IF tcp.header_len + Len(tcp.payload) > 65535 THEN [outcome |-> "error"]
    ELSE [outcome |-> "forward",
          packet  |-> WriteAt(packet, ETHERNET2_LEN + ipv4.header_len,
                              TcpToBytes(tcp.bytes, CalcChecksumIpv4(ipv4, tcp)))]

(* Mutant: the TCP repair runs whatever the IPv4 protocol is.              *)
RepairIpv4_AnyProtocol(packet, payload) ==
    LET ipv4 == Ipv4HeaderFromSlice(payload) IN
    IF ~ipv4.ok THEN [outcome |-> "error"]
    ELSE RepairTcp(packet, ipv4)

RepairIpv4(packet, payload) ==
    LET ipv4 == Ipv4HeaderFromSlice(payload) IN
    IF ~ipv4.ok THEN [outcome |-> "error"]
    ELSE IF ipv4.protocol = IP_NUMBER_TCP THEN RepairTcp(packet, ipv4)
    ELSE [outcome |-> "forward", packet |-> packet]

(* Mutant: the destination is read from the source field of the header.   *)
ParseAndRepair_SourceAsDestination(packet) ==
    LET header == Ethernet2HeaderFromSlice(packet) IN
    IF ~header.ok THEN [outcome |-> "continue"]
    ELSE LET r == IF header.ether_type = ETHER_TYPE_IPV4
                  THEN RepairIpv4(packet, header.payload)
                  ELSE [outcome |-> "forward", packet |-> packet]
         IN IF r.outcome = "error" THEN r
            ELSE [outcome     |-> "forward",
                  packet      |-> r.packet,
                  destination |-> header.source]

(* Mutant: a failed Ethernet parse returns from process like the others.   *)
ParseAndRepair_EthernetFatal(packet) ==
    LET header == Ethernet2HeaderFromSlice(packet) IN
    IF ~header.ok THEN [outcome |-> "error"]
    ELSE LET r == IF header.ether_type = ETHER_TYPE_IPV4
                  THEN RepairIpv4(packet, header.payload)
                  ELSE [outcome |-> "forward", packet |-> packet]
         IN IF r.outcome = "error" THEN r
            ELSE [outcome     |-> "forward",
                  packet      |-> r.packet,
                  destination |-> header.destination]

ParseAndRepair(packet) ==
    LET header == Ethernet2HeaderFromSlice(packet) IN
    IF ~header.ok THEN [outcome |-> "continue"]
    ELSE LET r == IF header.ether_type = ETHER_TYPE_IPV4
                  THEN RepairIpv4(packet, header.payload)
                  ELSE [outcome |-> "forward", packet |-> packet]
         IN IF r.outcome = "error" THEN r
            ELSE [outcome     |-> "forward",
                  packet      |-> r.packet,
                  destination |-> header.destination]

(***************************************************************************)
(* State.                                                                  *)
(***************************************************************************)
Callers == 1..MaxJoins

VARIABLES
    members,     \* the registry: address -> the join call whose sender it holds, 0 if vacant
    lock,        \* the registry mutex: "free", "core" or "join"
    pc,          \* per join call: idle, entry, subscribe, joined, failed, dropped
    mac,         \* per join call: the address it was called with
    egress,      \* per join call: its from_bridge channel
    egressRx,    \* per join call: from_bridge_receiver is alive
    txAlive,     \* per join call: the handle's to_bridge_sender is alive
    sub,         \* per join call: cursor of from_broadcast_receiver, -1 if none
    received,    \* per join call: <<submitter, number>> of the frame last taken from from_bridge_receiver
    bridges,     \* live VirtualBridge handles
    ingress,     \* the to_bridge channel
    submitted,   \* how many frames have been submitted so far
    bcast,       \* the broadcast ring: the last BROADCAST_QUEUE_LEN frames published
    tail,        \* how many frames have been published on the broadcast channel
    coreCursor,  \* cursor of the task's own from_broadcast_receiver
    corePc,      \* the task: select, lock, lookup, done, failed
    corePacket,  \* the packet and destination the task holds while it waits for the registry
    logged       \* the message the task logged last (debug!, trace!, warn!)

(***************************************************************************)
(* State of one pass over one packet taken alone (vbridge.rs:118-143), and *)
(* of the event generator of the daemon (daemon/src/event.rs).             *)
(***************************************************************************)
VARIABLES
    pass,        \* one pass over one packet:
                 \*   rx: the packet as to_bridge_receiver.recv() returned it
                 \*   tx: the packet as it reaches destination resolution
                 \*   pc: idle, received, forwarded, dropped, failed
    generator,   \* the DaemonEventGenerator and its task:
                 \*   last: guest id -> None or Some(GuestInfo)
                 \*   guests: the map evaluate built from the latest list()
                 \*   events: the events the latest evaluate sent, in order
                 \*   pc: idle, evaluate, sleep_500ms, sleep_5s
    watched      \* what a watcher of the event channel has seen:
                 \*   polls: how many times evaluate has been called
                 \*   log: guest id -> the kinds of the events sent for it
                 \*   reverted: guest id -> an exit code was set, then unset

bridgeVars == <<members, lock, pc, mac, egress, egressRx, txAlive, sub, received, bridges,
                ingress, submitted, bcast, tail, coreCursor, corePc, corePacket, logged>>

passVars == <<pass>>

generatorVars == <<generator, watched>>

vars == <<bridgeVars, passVars, generatorVars>>

registryVars == <<members, lock>>

memberVars == <<pc, mac, egressRx, txAlive, sub, received>>

ingressVars == <<ingress, submitted>>

broadcastVars == <<bcast, tail>>

coreVars == <<coreCursor, corePc, corePacket, logged>>

(***************************************************************************)
(* The guests the runtime lists, and the exit codes they end with.         *)
(***************************************************************************)
GuestIds == {"g1", "g2"}

ExitCodes == {0, 1}

(* Option<T> as a sequence: None is <<>>, Some(x) is <<x>>.                *)
None == <<>>

Some(x) == <<x>>

(* No packet is being passed alone.                                        *)
NoPass == pass = [rx |-> <<>>, tx |-> <<>>, pc |-> "idle"]

(* No event generator has been made.                                       *)
NoGenerator ==
    /\ generator = [last   |-> [g \in GuestIds |-> None],
                    guests |-> [g \in GuestIds |-> None],
                    events |-> <<>>,
                    pc     |-> "idle"]
    /\ watched = [polls    |-> 0,
                  log      |-> [g \in GuestIds |-> <<>>],
                  reverted |-> [g \in GuestIds |-> FALSE]]

(* VirtualBridge::new: empty channels, empty registry, the task spawned.   *)
InitBridge ==
    /\ members = [a \in Addresses |-> 0]
    /\ lock = "free"
    /\ pc = [j \in Callers |-> "idle"]
    /\ mac = [j \in Callers |-> MacA]
    /\ egress = [j \in Callers |-> <<>>]
    /\ egressRx = [j \in Callers |-> FALSE]
    /\ txAlive = [j \in Callers |-> FALSE]
    /\ sub = [j \in Callers |-> -1]
    /\ received = [j \in Callers |-> <<>>]
    /\ bridges = 1
    /\ ingress = <<>>
    /\ submitted = 0
    /\ bcast = <<>>
    /\ tail = 0
    /\ coreCursor = 0
    /\ corePc = "select"
    /\ corePacket = <<>>
    /\ logged = "none"

Init == InitBridge /\ NoPass /\ NoGenerator

CoreRunning == corePc \in {"select", "lock", "lookup"}

(* Live senders of the to_bridge channel.                                  *)
IngressSenders == bridges + Cardinality({j \in Callers : txAlive[j]})

(* Mutant: the task's own receiver is not kept; only members subscribe.    *)
BroadcastReceivers_MembersOnly == Cardinality({j \in Callers : sub[j] >= 0})

(* Live receivers of the broadcast channel: the task's own and the         *)
(* members' subscriptions.                                                 *)
BroadcastReceivers ==
    (IF CoreRunning THEN 1 ELSE 0) + Cardinality({j \in Callers : sub[j] >= 0})

(* broadcast Receiver::recv with a value ready: a cursor that fell behind  *)
(* the ring jumps to the oldest retained value (Lagged), else it advances. *)
BroadcastRecvNext(cursor) ==
    IF cursor < tail - BROADCAST_QUEUE_LEN
    THEN tail - BROADCAST_QUEUE_LEN
    ELSE cursor + 1

(* broadcast Sender::send: the frame takes the next slot of the ring, over *)
(* the oldest one once the ring is full.                                   *)
BroadcastPush(ring, e) ==
    IF Len(ring) < BROADCAST_QUEUE_LEN THEN Append(ring, e)
    ELSE Append(Tail(ring), e)

(* HashMap::get on the registry.                                           *)
MembersGet(destination) ==
    IF destination \in Addresses THEN members[destination] ELSE 0

(* Mutant: the entry is always taken to be vacant.                         *)
EntryOccupied_Never(a) == FALSE

(* HashMap::entry in join: Occupied or Vacant.                             *)
EntryOccupied(a) == members[a] # 0

(* mpsc Sender::try_send: fails when the receiver is gone or the queue is  *)
(* at capacity.                                                            *)
TrySendOk(j) == egressRx[j] /\ Len(egress[j]) < FROM_BRIDGE_QUEUE_LEN

(* Mutant: recv takes the newest queued frame.                             *)
IngressRecv_Newest ==
    [packet |-> ingress[Len(ingress)], rest |-> SubSeq(ingress, 1, Len(ingress) - 1)]

(* mpsc Receiver::recv takes the oldest queued frame.                      *)
IngressRecv == [packet |-> Head(ingress), rest |-> Tail(ingress)]

(* mpsc try_send puts the frame behind the frames already queued.          *)
Enqueue(q, e) == Append(q, e)

(***************************************************************************)
(* VirtualBridge::join, one action per step between its await points.      *)
(***************************************************************************)
(* vbridge.rs:85-88: the egress channel is created and                    *)
(* members.lock().await completes.  The calls are numbered in the order    *)
(* they take the lock.                                                     *)
JoinBegin(j, a) ==
    /\ pc[j] = "idle"
    /\ \A i \in Callers : i < j => pc[i] # "idle"
    /\ bridges > 0
    /\ lock = "free"
    /\ lock' = "join"
    /\ pc' = [pc EXCEPT ![j] = "entry"]
    /\ mac' = [mac EXCEPT ![j] = a]
    /\ egressRx' = [egressRx EXCEPT ![j] = TRUE]
    /\ UNCHANGED <<members, egress, txAlive, sub, received, bridges, ingressVars,
                   broadcastVars, coreVars>>
    /\ UNCHANGED <<passVars, generatorVars>>

(* Mutant: the member is inserted first and the duplicate noticed after.   *)
JoinEntry_InsertThenCheck(j) ==
    /\ pc[j] = "entry"
    /\ lock' = "free"
    /\ members' = [members EXCEPT ![mac[j]] = j]
    /\ IF EntryOccupied(mac[j])
       THEN /\ pc' = [pc EXCEPT ![j] = "failed"]
            /\ egressRx' = [egressRx EXCEPT ![j] = FALSE]
       ELSE /\ pc' = [pc EXCEPT ![j] = "subscribe"]
            /\ UNCHANGED egressRx
    /\ UNCHANGED <<mac, egress, txAlive, sub, received, bridges, ingressVars,
                   broadcastVars, coreVars>>
    /\ UNCHANGED <<passVars, generatorVars>>

(* vbridge.rs:88-95: entry(mac); Occupied returns the error and drops the  *)
(* new channel, Vacant inserts the member.  The guard is released.         *)
JoinEntry(j) ==
    /\ pc[j] = "entry"
    /\ lock' = "free"
    /\ IF EntryOccupied(mac[j])
       THEN /\ pc' = [pc EXCEPT ![j] = "failed"]
            /\ egressRx' = [egressRx EXCEPT ![j] = FALSE]
            /\ UNCHANGED members
       ELSE /\ members' = [members EXCEPT ![mac[j]] = j]
            /\ pc' = [pc EXCEPT ![j] = "subscribe"]
            /\ UNCHANGED egressRx
    /\ UNCHANGED <<mac, egress, txAlive, sub, received, bridges, ingressVars,
                   broadcastVars, coreVars>>
    /\ UNCHANGED <<passVars, generatorVars>>

(* vbridge.rs:97-101: the handle is built: subscribe() starts at the tail  *)
(* of the broadcast channel, the ingress sender is cloned.                 *)
JoinSubscribe(j) ==
    /\ pc[j] = "subscribe"
    /\ sub' = [sub EXCEPT ![j] = tail]
    /\ txAlive' = [txAlive EXCEPT ![j] = TRUE]
    /\ pc' = [pc EXCEPT ![j] = "joined"]
    /\ UNCHANGED <<registryVars, mac, egress, egressRx, received, bridges,
                   ingressVars, broadcastVars, coreVars>>
    /\ UNCHANGED <<passVars, generatorVars>>

(***************************************************************************)
(* What the holder of a BridgeJoinHandle and of the bridge can do.         *)
(***************************************************************************)
(* to_bridge_sender.send(frame): waits while the queue is full; fails      *)
(* without effect once the task has dropped the receiver.                  *)
Submit(j, f) ==
    /\ pc[j] = "joined"
    /\ txAlive[j]
    /\ CoreRunning
    /\ Len(ingress) < TO_BRIDGE_QUEUE_LEN
    /\ submitted < MaxSubmit
    /\ ingress' = Append(ingress, [data |-> f, by |-> j, n |-> submitted + 1])
    /\ submitted' = submitted + 1
    /\ UNCHANGED <<registryVars, memberVars, egress, bridges, broadcastVars,
                   coreVars>>
    /\ UNCHANGED <<passVars, generatorVars>>

(* from_bridge_receiver.recv() with a frame queued.                        *)
EgressRecv(j) ==
    /\ egressRx[j]
    /\ pc[j] = "joined"
    /\ egress[j] # <<>>
    /\ egress' = [egress EXCEPT ![j] = Tail(egress[j])]
    /\ received' = [received EXCEPT ![j] = <<Head(egress[j]).by, Head(egress[j]).n>>]
    /\ UNCHANGED <<registryVars, pc, mac, egressRx, txAlive, sub, bridges,
                   ingressVars, broadcastVars, coreVars>>
    /\ UNCHANGED <<passVars, generatorVars>>

(* from_broadcast_receiver.recv() with a frame published past the cursor.  *)
BroadcastRecv(j) ==
    /\ sub[j] >= 0
    /\ sub[j] < tail
    /\ sub' = [sub EXCEPT ![j] = BroadcastRecvNext(sub[j])]
    /\ UNCHANGED <<registryVars, pc, mac, egress, egressRx, txAlive, received,
                   bridges, ingressVars, broadcastVars, coreVars>>
    /\ UNCHANGED <<passVars, generatorVars>>

(* The member drops its BridgeJoinHandle: the ingress sender, the egress   *)
(* receiver (the egress channel closes and drops what it held) and the     *)
(* broadcast receiver.  The registry keeps its entry: nothing in the       *)
(* source removes one.                                                     *)
DropHandle(j) ==
    /\ pc[j] = "joined"
    /\ pc' = [pc EXCEPT ![j] = "dropped"]
    /\ egressRx' = [egressRx EXCEPT ![j] = FALSE]
    /\ egress' = [egress EXCEPT ![j] = <<>>]
    /\ txAlive' = [txAlive EXCEPT ![j] = FALSE]
    /\ sub' = [sub EXCEPT ![j] = -1]
    /\ received' = [received EXCEPT ![j] = <<>>]
    /\ UNCHANGED <<registryVars, mac, bridges, ingressVars, broadcastVars,
                   coreVars>>
    /\ UNCHANGED <<passVars, generatorVars>>

JoinInProgress == \E j \in Callers : pc[j] \in {"entry", "subscribe"}

(* The VirtualBridge handle, with every clone of it, is dropped; join      *)
(* borrows it while it runs.                                               *)
DropBridge ==
    /\ bridges > 0
    /\ ~JoinInProgress
    /\ bridges' = bridges - 1
    /\ UNCHANGED <<registryVars, memberVars, egress, ingressVars,
                   broadcastVars, coreVars>>
    /\ UNCHANGED <<passVars, generatorVars>>

(***************************************************************************)
(* VirtualBridge::process, one action per select arm and await point.      *)
(***************************************************************************)
(* Mutant: the select polls its arms in no fixed order.                    *)
BroadcastArmPending_Unbiased == TRUE

(* vbridge.rs:112-113: the select is biased; its second arm is polled only *)
(* when from_broadcast_receiver.recv(), the first, has nothing ready.      *)
BroadcastArmPending == coreCursor = tail

(* vbridge.rs:113,170: the biased select takes the broadcast arm whenever  *)
(* the task's own receiver has something; the arm does nothing more.       *)
CoreBroadcastSent ==
    /\ corePc = "select"
    /\ coreCursor < tail
    /\ coreCursor' = BroadcastRecvNext(coreCursor)
    /\ UNCHANGED <<registryVars, memberVars, egress, bridges, ingressVars,
                   broadcastVars, corePc, corePacket, logged>>
    /\ UNCHANGED <<passVars, generatorVars>>

(* vbridge.rs:118-153: a frame is taken from ingress, parsed and repaired; *)
(* a multicast frame is published, a unicast one awaits the registry.  A   *)
(* `?` returns from process, which drops to_bridge_receiver and with it    *)
(* the frames still queued.                                                *)
CorePacketReceived ==
    /\ corePc = "select"
    /\ BroadcastArmPending
    /\ ingress # <<>>
    /\ LET e == IngressRecv.packet
           r == ParseAndRepair(e.data)
       IN  CASE r.outcome = "continue" ->
                  /\ ingress' = IngressRecv.rest
                  /\ logged' = "parse_failed"
                  /\ UNCHANGED <<broadcastVars, corePc, corePacket>>
             [] r.outcome = "error" ->
                  /\ corePc' = "failed"
                  /\ ingress' = <<>>
                  /\ logged' = "task_failed"
                  /\ UNCHANGED <<broadcastVars, corePacket>>
             [] r.outcome = "forward" /\ is_multicast(r.destination) ->
                  IF BroadcastReceivers = 0
                  THEN /\ corePc' = "failed"
                       /\ ingress' = <<>>
                       /\ logged' = "task_failed"
                       /\ UNCHANGED <<broadcastVars, corePacket>>
                  ELSE /\ bcast' = BroadcastPush(bcast, [e EXCEPT !.data = r.packet])
                       /\ tail' = tail + 1
                       /\ ingress' = IngressRecv.rest
                       /\ logged' = "broadcasting"
                       /\ UNCHANGED <<corePc, corePacket>>
             [] OTHER ->
                  /\ corePc' = "lock"
                  /\ corePacket' = <<[packet      |-> [e EXCEPT !.data = r.packet],
                                      destination |-> r.destination]>>
                  /\ ingress' = IngressRecv.rest
                  /\ UNCHANGED <<broadcastVars, logged>>
    /\ UNCHANGED <<registryVars, memberVars, egress, bridges, submitted,
                   coreCursor>>
    /\ UNCHANGED <<passVars, generatorVars>>

(* vbridge.rs:154: members.lock().await completes.                         *)
CoreAcquire ==
    /\ corePc = "lock"
    /\ lock = "free"
    /\ lock' = "core"
    /\ corePc' = "lookup"
    /\ UNCHANGED <<members, memberVars, egress, bridges, ingressVars,
                   broadcastVars, coreCursor, corePacket, logged>>
    /\ UNCHANGED <<passVars, generatorVars>>

(* Mutant: the frame is sent with send().await, which waits under the     *)
(* guard while the member's queue is full.                                 *)
CoreLookup_BlockingSend ==
    /\ corePc = "lookup"
    /\ LET j == MembersGet(corePacket[1].destination)
       IN  (j # 0 /\ egressRx[j]) => Len(egress[j]) < FROM_BRIDGE_QUEUE_LEN
    /\ lock' = "free"
    /\ corePacket' = <<>>
    /\ LET e == corePacket[1].packet
           j == MembersGet(corePacket[1].destination)
       IN  IF j = 0
           THEN /\ corePc' = "select"
                /\ logged' = "no_member"
                /\ UNCHANGED <<egress, ingress>>
           ELSE IF egressRx[j]
           THEN /\ egress' = [egress EXCEPT ![j] = Enqueue(egress[j], e)]
                /\ corePc' = "select"
                /\ logged' = "sending"
                /\ UNCHANGED ingress
           ELSE /\ corePc' = "failed"
                /\ ingress' = <<>>
                /\ logged' = "task_failed"
                /\ UNCHANGED egress
    /\ UNCHANGED <<members, memberVars, bridges, submitted, broadcastVars,
                   coreCursor>>
    /\ UNCHANGED <<passVars, generatorVars>>

(* vbridge.rs:154-166: get(&destination); a member found gets the frame by *)
(* try_send, whose failure returns from process.  The guard is released.   *)
CoreLookup ==
    /\ corePc = "lookup"
    /\ lock' = "free"
    /\ corePacket' = <<>>
    /\ LET e == corePacket[1].packet
           j == MembersGet(corePacket[1].destination)
       IN  IF j = 0
           THEN /\ corePc' = "select"
                /\ logged' = "no_member"
                /\ UNCHANGED <<egress, ingress>>
           ELSE IF TrySendOk(j)
           THEN /\ egress' = [egress EXCEPT ![j] = Enqueue(egress[j], e)]
                /\ corePc' = "select"
                /\ logged' = "sending"
                /\ UNCHANGED ingress
           ELSE /\ corePc' = "failed"
                /\ ingress' = <<>>
                /\ logged' = "task_failed"
                /\ UNCHANGED egress
    /\ UNCHANGED <<members, memberVars, bridges, submitted, broadcastVars,
                   coreCursor>>
    /\ UNCHANGED <<passVars, generatorVars>>

(* vbridge.rs:169: recv() returns None once the queue is empty and every   *)
(* sender is gone; the loop breaks and process returns Ok.                 *)
CoreClosed ==
    /\ corePc = "select"
    /\ BroadcastArmPending
    /\ ingress = <<>>
    /\ IngressSenders = 0
    /\ corePc' = "done"
    /\ UNCHANGED <<registryVars, memberVars, egress, bridges, ingressVars,
                   broadcastVars, coreCursor, corePacket, logged>>
    /\ UNCHANGED <<passVars, generatorVars>>

Next ==
    \/ \E j \in Callers, a \in Addresses : JoinBegin(j, a)
    \/ \E j \in Callers : JoinEntry(j)
    \/ \E j \in Callers : JoinSubscribe(j)
    \/ \E j \in Callers, f \in Frames : Submit(j, f)
    \/ \E j \in Callers : EgressRecv(j)
    \/ \E j \in Callers : BroadcastRecv(j)
    \/ \E j \in Callers : DropHandle(j)
    \/ DropBridge
    \/ CoreBroadcastSent
    \/ CorePacketReceived
    \/ CoreAcquire
    \/ CoreLookup
    \/ CoreClosed

Spec == Init /\ [][Next]_vars
(***************************************************************************)
(* One pass of process over one packet, taken alone.  The packets are the  *)
(* frames above and a family of TCP-over-IPv4 frames: with a stale         *)
(* checksum, or as the bridge forwarded them; with and without bytes after *)
(* the IPv4 total length (the padding of a short Ethernet frame).          *)
(***************************************************************************)
(* TcpBytes with the byte that holds the data offset, the reserved bits    *)
(* and the NS flag as given.                                               *)
TcpBytesWith(offsetByte, checksum) ==
    [TcpBytes(checksum) EXCEPT ![13] = offsetByte]

(* Data offset 5 with nothing else set, with NS set, with a reserved bit.  *)
OffsetBytes == {80, 81, 82}

StaleChecksums == {0, 65535}

TcpPayloads == {<<>>, <<7>>, <<7, 9>>}

Paddings == {<<>>, <<0, 0>>}

FrameTcpWith(dst, offsetByte, checksum, payload) ==
    EthFrame(dst, MacA, ETHER_TYPE_IPV4,
             Ipv4Bytes(IP_NUMBER_TCP, 20 + Len(payload))
                \o TcpBytesWith(offsetByte, checksum) \o payload)

StaleFrames ==
    { FrameTcpWith(dst, o, c, p) :
        dst \in {MacB, MacBroadcast}, o \in OffsetBytes,
        c \in StaleChecksums, p \in TcpPayloads }

(* The same frames as a first pass hands them on.                          *)
RepairedFrames == { ParseAndRepair(f).packet : f \in StaleFrames }

PassPackets ==
    Frames \cup { f \o padding : f \in StaleFrames \cup RepairedFrames,
                                 padding \in Paddings }

(* vbridge.rs:114,118: recv() has returned Some(packet).                   *)
InitPass ==
    /\ InitBridge
    /\ NoGenerator
    /\ pass \in [rx : PassPackets, tx : {<<>>}, pc : {"received"}]

(* vbridge.rs:119-145: the packet is parsed and, if TCP over IPv4, its     *)
(* checksum is rewritten in the buffer; it is then dropped (continue),     *)
(* ends the task (`?`), or reaches destination resolution.                 *)
Pass ==
    /\ pass.pc = "received"
    /\ LET r == ParseAndRepair(pass.rx)
       IN  CASE r.outcome = "continue" ->
                  pass' = [pass EXCEPT !.pc = "dropped"]
             [] r.outcome = "error" ->
                  pass' = [pass EXCEPT !.pc = "failed"]
             [] OTHER ->
                  pass' = [pass EXCEPT !.pc = "forwarded", !.tx = r.packet]
    /\ UNCHANGED <<bridgeVars, generatorVars>>

NextPass == Pass

SpecPass == InitPass /\ [][NextPass]_vars
(***************************************************************************)
(* The event generator of the daemon (daemon/src/event.rs): evaluate, and  *)
(* the loop of launch around it.                                           *)
(***************************************************************************)
MaxPolls == 4

(* GuestInfo, as far as evaluate reads it: state.exit_code.                *)
GuestInfos == [exit_code : {None} \cup {Some(c) : c \in ExitCodes}]

(* event.rs:45-52: what runtime.list() returns, as the map built from it.  *)
Snapshots == [GuestIds -> {None} \cup {Some(info) : info \in GuestInfos}]

(* The orders in which a HashMap may iterate over its keys.                *)
KeyOrders ==
    { o \in [1..Cardinality(GuestIds) -> GuestIds] :
        \A i, k \in 1..Cardinality(GuestIds) : i # k => o[i] # o[k] }

GuestLaunched(g) == [kind |-> "GuestLaunched", guest_id |-> g, code |-> None]

GuestDestroyed(g) == [kind |-> "GuestDestroyed", guest_id |-> g, code |-> None]

GuestExited(g, c) == [kind |-> "GuestExited", guest_id |-> g, code |-> Some(c)]

RECURSIVE LaunchedEvents(_, _, _)
(* event.rs:56-62: for uuid in guests.keys(), not in self.last.            *)
LaunchedEvents(keys, new, old) ==
    IF keys = <<>> THEN <<>>
    ELSE (IF new[Head(keys)] # None /\ old[Head(keys)] = None
          THEN <<GuestLaunched(Head(keys))>> ELSE <<>>)
         \o LaunchedEvents(Tail(keys), new, old)

RECURSIVE DestroyedEvents(_, _, _)
(* event.rs:64-70: for uuid in self.last.keys(), not in guests.            *)
DestroyedEvents(keys, new, old) ==
    IF keys = <<>> THEN <<>>
    ELSE (IF old[Head(keys)] # None /\ new[Head(keys)] = None
          THEN <<GuestDestroyed(Head(keys))>> ELSE <<>>)
         \o DestroyedEvents(Tail(keys), new, old)

RECURSIVE ExitedEvents_IgnoresLast(_, _, _)
(* Mutant: the exit code self.last holds is not looked at.                 *)
ExitedEvents_IgnoresLast(keys, new, old) ==
    IF keys = <<>> THEN <<>>
    ELSE (IF /\ new[Head(keys)] # None
             /\ old[Head(keys)] # None
             /\ new[Head(keys)][1].exit_code # None
          THEN <<GuestExited(Head(keys), new[Head(keys)][1].exit_code[1])>>
          ELSE <<>>)
         \o ExitedEvents_IgnoresLast(Tail(keys), new, old)

RECURSIVE ExitedEvents(_, _, _)
(* event.rs:72-89: for (uuid, guest) in &guests: skipped when self.last    *)
(* has no such guest, when it has one with an exit code, and when the      *)
(* guest has no exit code.                                                 *)
ExitedEvents(keys, new, old) ==
    IF keys = <<>> THEN <<>>
    ELSE (IF /\ new[Head(keys)] # None
             /\ old[Head(keys)] # None
             /\ old[Head(keys)][1].exit_code = None
             /\ new[Head(keys)][1].exit_code # None
          THEN <<GuestExited(Head(keys), new[Head(keys)][1].exit_code[1])>>
          ELSE <<>>)
         \o ExitedEvents(Tail(keys), new, old)

(* The kinds of the events of a sequence that are about guest g.           *)
KindsFor(g, sent) ==
    LET about == SelectSeq(sent, LAMBDA e : e.guest_id = g)
    IN  [i \in 1..Len(about) |-> about[i].kind]

(* DaemonEventGenerator::new and launch: nothing stored, the task at its   *)
(* first evaluate.                                                         *)
InitGenerator ==
    /\ InitBridge
    /\ NoPass
    /\ generator = [last   |-> [g \in GuestIds |-> None],
                    guests |-> [g \in GuestIds |-> None],
                    events |-> <<>>,
                    pc     |-> "evaluate"]
    /\ watched = [polls    |-> 0,
                  log      |-> [g \in GuestIds |-> <<>>],
                  reverted |-> [g \in GuestIds |-> FALSE]]

(* event.rs:44-97 with list() returning Ok: the three loops push their     *)
(* events, self.last becomes the new map, the events are sent in order.    *)
EvaluateOk(listed, newKeys, lastKeys) ==
    /\ generator.pc = "evaluate"
    /\ watched.polls < MaxPolls
    /\ LET old == generator.last
           sent == LaunchedEvents(newKeys, listed, old)
                     \o DestroyedEvents(lastKeys, listed, old)
                     \o ExitedEvents(newKeys, listed, old)
       IN  /\ generator' = [last   |-> listed,
                            guests |-> listed,
                            events |-> sent,
                            pc     |-> "sleep_500ms"]
           /\ watched' =
                [polls    |-> watched.polls + 1,
                 log      |-> [g \in GuestIds |->
                                 watched.log[g] \o KindsFor(g, sent)],
                 reverted |-> [g \in GuestIds |->
                                 \/ watched.reverted[g]
                                 \/ /\ old[g] # None /\ listed[g] # None
                                    /\ old[g][1].exit_code # None
                                    /\ listed[g][1].exit_code = None]]
    /\ UNCHANGED <<bridgeVars, passVars>>

(* Mutant: a failed poll forgets the stored snapshot.                      *)
EvaluateErr_ClearsLast ==
    /\ generator.pc = "evaluate"
    /\ watched.polls < MaxPolls
    /\ generator' = [generator EXCEPT !.pc = "sleep_5s", !.events = <<>>,
                                      !.last = [g \in GuestIds |-> None]]
    /\ watched' = [watched EXCEPT !.polls = @ + 1]
    /\ UNCHANGED <<bridgeVars, passVars>>

(* event.rs:45,103-105: list() fails and the `?` returns the error before  *)
(* anything else is done; launch logs it.                                  *)
EvaluateErr ==
    /\ generator.pc = "evaluate"
    /\ watched.polls < MaxPolls
    /\ generator' = [generator EXCEPT !.pc = "sleep_5s", !.events = <<>>]
    /\ watched' = [watched EXCEPT !.polls = @ + 1]
    /\ UNCHANGED <<bridgeVars, passVars>>

(* event.rs:105,107: the sleep of 5 s or of 500 ms is over.                *)
SleepElapsed ==
    /\ generator.pc \in {"sleep_500ms", "sleep_5s"}
    /\ generator' = [generator EXCEPT !.pc = "evaluate"]
    /\ UNCHANGED <<watched, bridgeVars, passVars>>

NextGenerator ==
    \/ \E listed \in Snapshots, newKeys \in KeyOrders, lastKeys \in KeyOrders :
          EvaluateOk(listed, newKeys, lastKeys)
    \/ EvaluateErr
    \/ SleepElapsed

SpecGenerator == InitGenerator /\ [][NextGenerator]_vars

(***************************************************************************)
(* Vocabulary of the properties.                                           *)
(***************************************************************************)
(* Every header process looks at can be parsed.                            *)
Parses(p) ==
    LET h == Ethernet2HeaderFromSlice(p) IN
    /\ h.ok
    /\ h.ether_type = ETHER_TYPE_IPV4 =>
          LET ip == Ipv4HeaderFromSlice(h.payload) IN
          /\ ip.ok
          /\ ip.protocol = IP_NUMBER_TCP => TcpHeaderFromSlice(ip.payload).ok

(* The destination address of a frame with a whole Ethernet II header.     *)
DestinationOf(p) == Slice(p, 0, 6)

(* The step in which the task takes a frame from ingress.                  *)
CoreDequeues == corePc = "select" /\ Len(ingress') < Len(ingress)

(* The step in which the task looks the held packet up and releases.       *)
CoreLooksUp == corePc = "lookup" /\ corePc' # "lookup"

(* The member, if any, registered under the held packet's destination.     *)
PendingMember ==
    IF corePacket[1].destination \in Addresses
    THEN members[corePacket[1].destination] ELSE 0

Succeeded(j) == pc[j] \in {"subscribe", "joined", "dropped"}

(***************************************************************************)
(* C1: when the task tries to enqueue a unicast frame on a registered      *)
(* member's egress queue that is already at capacity, the frame is dropped *)
(* and the task keeps running (it goes back to its select).                *)
(***************************************************************************)
C1_SaturationNeverStopsCore ==
    [][(/\ CoreLooksUp
        /\ PendingMember # 0
        /\ egressRx[PendingMember]
        /\ Len(egress[PendingMember]) >= FROM_BRIDGE_QUEUE_LEN)
       => (corePc' = "select" /\ egress' = egress)]_vars

(***************************************************************************)
(* C2: whatever frame the task takes from ingress, a frame with a          *)
(* truncated IPv4 or TCP header included, it drops or forwards that frame  *)
(* and stays running for the next one.                                     *)
(***************************************************************************)
C2_FrameErrorsContained ==
    [][CoreDequeues => corePc' \in {"select", "lock"}]_vars

(***************************************************************************)
(* C3: when the task looks up a unicast frame whose registered member has  *)
(* dropped its egress receiver, the failed send is a drop of that frame    *)
(* and the task keeps running.                                             *)
(***************************************************************************)
C3_ClosedReceiverIsADrop ==
    [][(/\ CoreLooksUp
        /\ PendingMember # 0
        /\ ~egressRx[PendingMember])
       => (corePc' = "select" /\ egress' = egress)]_vars

(***************************************************************************)
(* C4: a frame shorter than an Ethernet II header is dropped: no egress    *)
(* queue and no broadcast slot receives it, the registry is unchanged, the *)
(* task stays in its loop and the frames queued behind it stay queued, in  *)
(* order, for the next iterations.                                         *)
(***************************************************************************)
C4_MalformedFrameDropped ==
    [][(CoreDequeues /\ Len(Head(ingress).data) < ETHERNET2_LEN)
       => /\ corePc' = "select"
          /\ corePacket' = <<>>
          /\ ingress' = Tail(ingress)
          /\ UNCHANGED <<members, egress, bcast, tail>>]_vars

(* The task has dropped a malformed frame and still runs, with a           *)
(* well-formed frame waiting behind it.                                    *)
C4_Witness ==
    /\ logged = "parse_failed"
    /\ corePc = "select"
    /\ ingress # <<>>
    /\ Parses(Head(ingress).data)

(***************************************************************************)
(* C5: a join on a registered address returns the duplicate error and      *)
(* changes nothing else: the registry keeps the first member's sender, no  *)
(* subscription is created, and the first member's channels and senders    *)
(* are as they were.                                                       *)
(***************************************************************************)
C5_DuplicateJoinMutatesNothing ==
    [][\A j \in Callers :
         (pc[j] = "entry" /\ pc'[j] # "entry" /\ members[mac[j]] # 0)
         => /\ pc'[j] = "failed"
            /\ members' = members
            /\ sub'[j] = -1 /\ ~txAlive'[j] /\ ~egressRx'[j]
            /\ \A i \in Callers \ {j} :
                  /\ pc'[i] = pc[i] /\ sub'[i] = sub[i]
                  /\ egressRx'[i] = egressRx[i] /\ txAlive'[i] = txAlive[i]
            /\ UNCHANGED <<egress, ingress, bcast, tail, bridges>>]_vars

(* A second join on the address has failed, and the first member still     *)
(* receives unicast frames for it and still holds its ingress sender.      *)
C5_Witness ==
    \E j \in Callers :
        /\ pc[j] = "failed"
        /\ LET first == members[mac[j]] IN
           /\ first # 0 /\ first # j
           /\ pc[first] = "joined" /\ txAlive[first] /\ egressRx[first]
           /\ egress[first] # <<>>
           /\ DestinationOf(egress[first][1].data) = mac[j]
           /\ logged = "sending"

(***************************************************************************)
(* C6: for each address at most one join call ever returns a handle; a     *)
(* call returns the duplicate error exactly when another call for the same *)
(* address got there first; and the registry maps an address to the call   *)
(* that succeeded for it.                                                  *)
(***************************************************************************)
C6_OneMemberPerAddress ==
    /\ \A i, j \in Callers :
          (i # j /\ Succeeded(i) /\ Succeeded(j)) => mac[i] # mac[j]
    /\ \A j \in Callers :
          pc[j] = "failed" =>
             \E i \in Callers \ {j} : Succeeded(i) /\ mac[i] = mac[j]
    /\ \A a \in Addresses :
          members[a] # 0 => (Succeeded(members[a]) /\ mac[members[a]] = a)
    /\ \A j \in Callers : Succeeded(j) => members[mac[j]] = j

(* Two calls for one address have both returned: one with a handle, the    *)
(* other with the error.                                                   *)
C6_Witness ==
    \E i, j \in Callers :
        /\ i # j /\ mac[i] = mac[j]
        /\ pc[i] = "joined" /\ pc[j] = "failed"

(***************************************************************************)
(* More vocabulary.                                                        *)
(***************************************************************************)
(* The multicast/broadcast bit of a frame's destination address.           *)
GroupBit(p) == p[1] % 2 = 1

(* The frames between submission and delivery: queued on ingress or held   *)
(* by the task.                                                            *)
InFlight ==
    {ingress[i] : i \in 1..Len(ingress)}
      \cup {corePacket[i].packet : i \in 1..Len(corePacket)}

(* Two frames of one member to one destination.                            *)
SameFlow(x, y) ==
    /\ x.by = y.by
    /\ Len(x.data) >= ETHERNET2_LEN /\ Len(y.data) >= ETHERNET2_LEN
    /\ DestinationOf(x.data) = DestinationOf(y.data)

C10_ClosedIngressDrainedBeforeExit ==
    [][(IngressSenders = 0 /\ CoreRunning /\ ~CoreRunning')
       => (ingress = <<>> /\ corePacket = <<>> /\ corePc' = "done")]_vars

(***************************************************************************)
(* C11: a unicast frame whose destination is not in the registry is        *)
(* dropped: from the step that takes it from ingress to the lookup that    *)
(* finds no member, no egress queue and no broadcast slot receives it, the *)
(* registry is unchanged, and the task keeps running.                      *)
(***************************************************************************)
C11_UnknownUnicastDropped ==
    [][/\ (/\ CoreDequeues
           /\ Len(Head(ingress).data) >= ETHERNET2_LEN
           /\ ~GroupBit(Head(ingress).data)
           /\ MembersGet(DestinationOf(Head(ingress).data)) = 0)
          => (CoreRunning' /\ UNCHANGED <<members, egress, bcast, tail>>)
       /\ (CoreLooksUp /\ PendingMember = 0)
          => (corePc' = "select" /\ UNCHANGED <<members, egress, bcast, tail>>)]_vars

(***************************************************************************)
(* Vocabulary of the frame-effect properties.                              *)
(***************************************************************************)
(* A frame with a whole Ethernet II header that is not IPv4, or is IPv4    *)
(* with a protocol field other than TCP.                                   *)
NotTcpOverIpv4(p) ==
    /\ Len(p) >= ETHERNET2_LEN
    /\ \/ U16(p[13], p[14]) # ETHER_TYPE_IPV4
       \/ Len(p) >= ETHERNET2_LEN + 10 /\ p[ETHERNET2_LEN + 10] # IP_NUMBER_TCP

(***************************************************************************)
(* C12: a frame that is not IPv4, or is IPv4 with a protocol other than    *)
(* TCP, is forwarded as submitted: when its headers parse, the frame the   *)
(* task publishes, or holds for the lookup, is the submitted frame, byte   *)
(* for byte and of the same length; the lookup appends the held frame      *)
(* as it is to the member's egress queue; and receiving from a queue or    *)
(* from the ring changes none of the frames left on it.                    *)
(***************************************************************************)
C12_NonTcpForwardedUnchanged ==
    [][/\ (/\ CoreDequeues
           /\ NotTcpOverIpv4(Head(ingress).data)
           /\ Parses(Head(ingress).data))
          => IF GroupBit(Head(ingress).data)
             THEN /\ tail' = tail + 1
                  /\ bcast'[Len(bcast')] = Head(ingress)
                  /\ corePacket' = <<>>
             ELSE /\ Len(corePacket') = 1
                  /\ corePacket'[1].packet = Head(ingress)
                  /\ tail' = tail
       /\ (CoreLooksUp /\ egress' # egress)
          => \E j \in Callers :
                egress' = [egress EXCEPT ![j] = Append(@, corePacket[1].packet)]
       /\ \A j \in Callers :
             (Len(egress'[j]) < Len(egress[j]) /\ egressRx'[j])
                => egress'[j] = Tail(egress[j])
       /\ (tail' = tail) => (bcast' = bcast)]_vars

(* A UDP frame sits on the broadcast ring and an ARP frame on a member's   *)
(* egress queue, both as they were submitted.                              *)
C12_Witness ==
    /\ bcast # <<>>
    /\ bcast[Len(bcast)].data = FrameUdp(MacGroup, MacB)
    /\ \E j \in Callers :
          /\ egress[j] # <<>>
          /\ egress[j][1].data = FrameArp(MacA, MacB)
          /\ NotTcpOverIpv4(egress[j][1].data)

(***************************************************************************)
(* C14: once the member that joined with an address has left (its handle   *)
(* is gone), a unicast frame to that address is dropped as one to an       *)
(* unknown destination, with the task running on, and a new join with the  *)
(* address returns a handle.                                               *)
(***************************************************************************)
C14_JoinAfterLeaveSucceeds ==
    [][/\ (/\ CoreLooksUp
           /\ PendingMember # 0
           /\ pc[PendingMember] = "dropped")
          => (corePc' = "select" /\ egress' = egress)
       /\ \A j \in Callers :
             (/\ pc[j] = "entry" /\ pc'[j] # "entry"
              /\ \A i \in Callers \ {j} :
                    (Succeeded(i) /\ mac[i] = mac[j]) => pc[i] = "dropped")
             => pc'[j] = "subscribe"]_vars

(***************************************************************************)
(* C15: publishing a multicast or broadcast frame while no member holds a  *)
(* broadcast subscription succeeds: the frame takes a slot of the ring and *)
(* the task goes back to its select.                                       *)
(***************************************************************************)
C15_PublishWithoutSubscribers ==
    [][(/\ CoreDequeues
        /\ Parses(Head(ingress).data)
        /\ GroupBit(Head(ingress).data)
        /\ \A j \in Callers : sub[j] < 0)
       => (/\ corePc' = "select"
           /\ tail' = tail + 1
           /\ bcast'[Len(bcast')] = Head(ingress)
           /\ ingress' = Tail(ingress))]_vars

(* The task is about to take a multicast frame whose headers parse while   *)
(* every member that ever subscribed has dropped its receiver.             *)
C15_Witness ==
    /\ corePc = "select"
    /\ coreCursor = tail
    /\ ingress # <<>>
    /\ Parses(Head(ingress).data)
    /\ GroupBit(Head(ingress).data)
    /\ \A j \in Callers : sub[j] < 0
    /\ \E j \in Callers : pc[j] = "dropped"

(***************************************************************************)
(* C16: the registry guard is never held across a wait.  The guard is held *)
(* only by a join between its entry() and its return from the match, or by *)
(* the task between its get() and the end of the match; the holder's next  *)
(* step is always possible, whatever the state of the queues (the egress   *)
(* queue of the member found may be full or closed), and it releases the   *)
(* guard.                                                                  *)
(***************************************************************************)
C16_GuardNeverHeldAcrossWait ==
    /\ (lock = "core") <=> (corePc = "lookup")
    /\ (lock = "join") <=> (\E j \in Callers : pc[j] = "entry")
    /\ Cardinality({j \in Callers : pc[j] = "entry"}) <= 1
    /\ corePc = "lookup" => ENABLED CoreLookup
    /\ \A j \in Callers : pc[j] = "entry" => ENABLED JoinEntry(j)

(* The task holds the guard with a frame for a member whose egress queue   *)
(* is full, while another join call has yet to take the guard.             *)
C16_Witness ==
    /\ lock = "core"
    /\ PendingMember # 0
    /\ egressRx[PendingMember]
    /\ Len(egress[PendingMember]) = FROM_BRIDGE_QUEUE_LEN
    /\ bridges > 0
    /\ \E j \in Callers : pc[j] = "idle"

(***************************************************************************)
(* C17: a member's queues are created atomically at join: whenever the     *)
(* task publishes a frame, every address in the registry whose member has  *)
(* not dropped its handle has its broadcast subscription, so that the      *)
(* frame is delivered to it.                                               *)
(***************************************************************************)
C17_QueuesCreatedAtomically ==
    [][(tail' = tail + 1)
       => \A a \in Addresses :
             (members[a] # 0 /\ pc[members[a]] # "dropped")
                => (sub[members[a]] >= 0 /\ sub[members[a]] < tail')]_vars

(***************************************************************************)
(* C18: the broadcast arm is serviced before ingress.  While the task is   *)
(* at its select with a frame undrained on its own broadcast cursor, it    *)
(* takes nothing from ingress and does nothing but drain that frame; so    *)
(* its cursor is never more than one frame behind and never lags.          *)
(***************************************************************************)
C18_BroadcastServicedFirst ==
    [][/\ (corePc = "select" /\ coreCursor < tail)
          => (/\ ~CoreDequeues
              /\ corePc' = "select" /\ corePacket' = corePacket
              /\ logged' = logged
              /\ coreCursor' # coreCursor
                   => (coreCursor' = coreCursor + 1 /\ ingress' = ingress
                       /\ UNCHANGED <<bcast, tail, egress, members>>))
       /\ tail' - coreCursor' <= 1
       /\ coreCursor' >= tail' - BROADCAST_QUEUE_LEN]_vars

(* The task has published a frame and drained it from its own cursor while *)
(* a frame waits on ingress.                                               *)
C18_Witness ==
    /\ corePc = "select"
    /\ logged = "broadcasting"
    /\ tail >= 1
    /\ coreCursor = tail
    /\ ingress # <<>>

(***************************************************************************)
(* Vocabulary of the checksum property: the fields of a TCP-over-IPv4      *)
(* frame by their offsets, and the checksum of RFC 793 over the segment    *)
(* the IPv4 total length delimits.                                         *)
(***************************************************************************)
IhlOf(p) == (p[ETHERNET2_LEN + 1] % 16) * 4

TotalLenOf(p) == U16(p[ETHERNET2_LEN + 3], p[ETHERNET2_LEN + 4])

(* The 0-based offset of the TCP header in the frame.                      *)
TcpOffsetOf(p) == ETHERNET2_LEN + IhlOf(p)

TcpSegmentOf(p) == Slice(p, TcpOffsetOf(p), ETHERNET2_LEN + TotalLenOf(p))

ChecksumFieldOf(p) == U16(p[TcpOffsetOf(p) + 17], p[TcpOffsetOf(p) + 18])

(* Version 4, protocol TCP, the segment within the frame, a whole TCP      *)
(* header, and the reserved bits zero.                                     *)
WellFormedTcp(p) ==
    /\ Len(p) >= ETHERNET2_LEN + 40
    /\ U16(p[13], p[14]) = ETHER_TYPE_IPV4
    /\ p[ETHERNET2_LEN + 1] \div 16 = 4
    /\ IhlOf(p) >= 20
    /\ p[ETHERNET2_LEN + 10] = IP_NUMBER_TCP
    /\ TotalLenOf(p) >= IhlOf(p) + 20
    /\ ETHERNET2_LEN + TotalLenOf(p) <= Len(p)
    /\ LET seg == TcpSegmentOf(p)
       IN  /\ seg[13] \div 16 >= 5
           /\ (seg[13] \div 16) * 4 <= Len(seg)
           /\ (seg[13] \div 2) % 8 = 0

RfcTcpChecksum(p) ==
    LET seg == TcpSegmentOf(p) IN
    OnesComplement16(
        SumWords(Slice(p, ETHERNET2_LEN + 12, ETHERNET2_LEN + 20))
        + IP_NUMBER_TCP + Len(seg)
        + SumWords([seg EXCEPT ![17] = 0, ![18] = 0]))

(***************************************************************************)
(* C13: a well-formed TCP-over-IPv4 frame, whatever its checksum field     *)
(* holds, is forwarded with that field equal to the one's-complement       *)
(* checksum over the pseudo-header, the TCP header with a zero checksum    *)
(* and the payload; the length and every other byte are as submitted; and  *)
(* a frame whose checksum was right is forwarded unchanged.                *)
(***************************************************************************)
C13_TcpChecksumRepairedInPlace ==
    (pass.pc \notin {"idle", "received"} /\ WellFormedTcp(pass.rx))
    => /\ pass.pc = "forwarded"
       /\ Len(pass.tx) = Len(pass.rx)
       /\ ChecksumFieldOf(pass.tx) = RfcTcpChecksum(pass.rx)
       /\ \A i \in 1..Len(pass.rx) :
             i \notin {TcpOffsetOf(pass.rx) + 17, TcpOffsetOf(pass.rx) + 18}
                => pass.tx[i] = pass.rx[i]
       /\ ChecksumFieldOf(pass.rx) = RfcTcpChecksum(pass.rx)
             => pass.tx = pass.rx

(***************************************************************************)
(* Vocabulary of the event properties.                                     *)
(***************************************************************************)
(* How many times an event occurs in a sequence of events.                 *)
Occurrences(sent, e) == Cardinality({i \in 1..Len(sent) : sent[i] = e})

(* 1 if the condition holds, else 0.                                       *)
OneIf(condition) == IF condition THEN 1 ELSE 0

(* The step is a poll that succeeded, or one that failed.                  *)
PollSucceeds == generator.pc = "evaluate" /\ generator'.pc = "sleep_500ms"

PollFails == generator.pc = "evaluate" /\ generator'.pc = "sleep_5s"

(* The launched and destroyed events of a log, in order.                   *)
Lifecycle(l) == SelectSeq(l, LAMBDA k : k \in {"GuestLaunched", "GuestDestroyed"})

(* The log of one guest is well ordered: launched and destroyed alternate, *)
(* launched first; an exited has a launched before it with no destroyed in *)
(* between; and, unless the exit code reverted, no two exited lie between  *)
(* a launched and the next destroyed.                                      *)
WellOrdered(l, rev) ==
    /\ \A i \in 1..Len(Lifecycle(l)) :
          Lifecycle(l)[i] = IF i % 2 = 1 THEN "GuestLaunched" ELSE "GuestDestroyed"
    /\ \A i \in 1..Len(l) :
          l[i] = "GuestExited" =>
             \E k \in 1..(i - 1) :
                /\ l[k] = "GuestLaunched"
                /\ \A m \in (k + 1)..(i - 1) : l[m] = "GuestExited"
    /\ ~rev =>
          \A i, k \in 1..Len(l) :
             (i < k /\ l[i] = "GuestExited" /\ l[k] = "GuestExited")
                => \E m \in (i + 1)..(k - 1) : l[m] # "GuestExited"

(***************************************************************************)
(* C19: a poll that succeeds, with P the stored snapshot and N the one     *)
(* listed, sends one launched event for each guest in N and not in P, one  *)
(* destroyed event for each guest in P and not in N, one exited event,     *)
(* with N's code, for each guest in both whose exit code is absent in P    *)
(* and present in N, and no other event; the stored snapshot becomes N.    *)
(***************************************************************************)
C19_PollEmitsTheDiff ==
    [][PollSucceeds =>
         LET P == generator.last
             N == generator'.guests
             sent == generator'.events
         IN  /\ \A g \in GuestIds :
                   /\ Occurrences(sent, GuestLaunched(g))
                        = OneIf(N[g] # None /\ P[g] = None)
                   /\ Occurrences(sent, GuestDestroyed(g))
                        = OneIf(P[g] # None /\ N[g] = None)
                   /\ \A c \in ExitCodes :
                         Occurrences(sent, GuestExited(g, c))
                           = OneIf(/\ P[g] # None /\ N[g] # None
                                   /\ P[g][1].exit_code = None
                                   /\ N[g][1].exit_code = Some(c))
             /\ \A i \in 1..Len(sent) :
                   \E g \in GuestIds :
                      sent[i] \in {GuestLaunched(g), GuestDestroyed(g)}
                                     \cup {GuestExited(g, c) : c \in ExitCodes}
             /\ generator'.last = N]_vars

(* A poll has just sent two events: that one guest was destroyed and that  *)
(* the other exited with code 1; the exited guest is still stored.         *)
C19_Witness ==
    /\ generator.pc = "sleep_500ms"
    /\ Len(generator.events) = 2
    /\ \E g, h \in GuestIds :
          /\ Occurrences(generator.events, GuestDestroyed(g)) = 1
          /\ Occurrences(generator.events, GuestExited(h, 1)) = 1
          /\ generator.last[g] = None
          /\ generator.last[h] = Some([exit_code |-> Some(1)])

(***************************************************************************)
(* C20: over any sequence of polls the events sent for each guest are well *)
(* ordered (launched and destroyed alternate, launched first; exited only  *)
(* between a launched and the next destroyed; at most one exited there     *)
(* unless the exit code reverted from set to unset); a poll that fails     *)
(* sends nothing and leaves the stored snapshot as it was.                 *)
(***************************************************************************)
C20_EventsWellOrdered ==
    [][/\ PollFails =>
            /\ generator'.last = generator.last
            /\ generator'.events = <<>>
            /\ watched'.log = watched.log
       /\ \A g \in GuestIds :
             WellOrdered(watched'.log[g], watched'.reverted[g])]_vars

(* One guest has been launched, has exited and has been destroyed, in     *)
(* that order and with no reverted code, and the poll after that failed.   *)
C20_Witness ==
    /\ generator.pc = "sleep_5s"
    /\ generator.events = <<>>
    /\ \E g \in GuestIds :
          /\ watched.log[g] = <<"GuestLaunched", "GuestExited", "GuestDestroyed">>
          /\ ~watched.reverted[g]
          /\ generator.last[g] = None

=============================================================================
